---- MODULE Spec2Model ----
(***************************************************************************)
(* A model of the Qt GitHub client of src/main.cpp: the process runner     *)
(* runCommand, the string handling the slots do on subprocess output, and  *)
(* the slots of GitHubClient (search, clone, refresh, check updates, show  *)
(* diff, commit & push).                                                   *)
(*                                                                         *)
(* A text (QString) is a sequence of one-character strings.  A slot is a   *)
(* chain of steps, one per subprocess it runs; pc is the slot's position   *)
(* and "idle" means the event loop is waiting for the next click.  The     *)
(* slots run on the single UI thread, so no slot starts while pc # "idle". *)
(***************************************************************************)
EXTENDS Integers, Sequences, FiniteSets, TLC

VARIABLES
    repoList,   \* repoList: the items, each [text, ssh] (ssh = Qt::UserRole data)
    repoCur,    \* repoList->currentItem(): an index, 0 for none
    repoSel,    \* repoList->selectedItems(): a sequence of distinct indices
    dirs,       \* the item texts t for which QDir(localBaseDir).filePath(t) exists
    fileList,   \* fileList: the item texts
    fileCur,    \* fileList->currentItem(): an index, 0 for none
    pc,         \* position of the running slot, "idle" between slots
    slot,       \* the slot that runs, or ran last
    loc,        \* the running slot's locals
    events,     \* what the slot did so far: subprocesses, dialogs, log lines
    lastRun     \* the last runCommand call: its arguments, the process, the result

vars == <<repoList, repoCur, repoSel, dirs, fileList, fileCur, pc, slot, loc, events, lastRun>>

(***************************************************************************)
(* QString and QChar operations, as the slots use them.                    *)
(***************************************************************************)
isSpace(c) == c \in {" ", "\t", "\n"}

RECURSIVE TrimLeft(_)
TrimLeft(s) == IF s # <<>> /\ isSpace(Head(s)) THEN TrimLeft(Tail(s)) ELSE s

RECURSIVE TrimRight(_)
TrimRight(s) == IF s # <<>> /\ isSpace(s[Len(s)]) THEN TrimRight(SubSeq(s, 1, Len(s) - 1)) ELSE s

trimmed(s) == TrimRight(TrimLeft(s))

contains(s, c) == \E i \in 1..Len(s) : s[i] = c

\* QString::split(sep, QString::SkipEmptyParts); cur is the part being read.
RECURSIVE SplitFrom(_, _, _)
SplitFrom(s, sep, cur) ==
    LET done == IF cur = <<>> THEN <<>> ELSE <<cur>>
    IN  IF s = <<>> THEN done
        ELSE IF Head(s) = sep THEN done \o SplitFrom(Tail(s), sep, <<>>)
        ELSE SplitFrom(Tail(s), sep, Append(cur, Head(s)))

split(s, sep) == SplitFrom(s, sep, <<>>)

\* QString::mid(n): the text from offset n (0-based) to the end.
mid(s, n) == SubSeq(s, n + 1, Len(s))

\* QString::section(sep, 1): the fields after the first, i.e. what follows
\* the first sep (the whole text has one field when there is no sep).
section1(s, sep) ==
    IF ~contains(s, sep) THEN <<>>
    ELSE LET i == CHOOSE k \in 1..Len(s) : s[k] = sep /\ \A j \in 1..(k - 1) : s[j] # sep
         IN  SubSeq(s, i + 1, Len(s))

startsWith(s, p) == Len(s) >= Len(p) /\ SubSeq(s, 1, Len(p)) = p

\* All texts over alphabet A of length at most n.
TextsUpTo(A, n) == UNION {[1..k -> A] : k \in 0..n}

(***************************************************************************)
(* runCommand (lines 54-71).  The process is what the environment gives:   *)
(* whether it starts within the 10 s of waitForStarted, how long after     *)
(* that it runs (dur, in ms; 0: it has exited when waitForFinished looks), *)
(* its exit code and its two streams.                                      *)
(***************************************************************************)
FailedToStart == "Failed to start process"
TimedOut == "Process timed out"

\* QProcess::waitForFinished(msecs) on a running process: true iff the
\* process finishes within msecs; msecs = -1 is the only value that waits
\* without limit.
waitForFinished(msecs, dur) == IF msecs = -1 THEN TRUE ELSE dur <= msecs

\* proc.kill(): SIGKILL ends the child.
kill(child) == "killed"

\* ~QProcess at the end of runCommand: a child still running is killed and
\* reaped; one that has ended, or never started, is left as it is.
destroy(child) == IF child = "running" THEN kill(child) ELSE child

\* runCommand without the early return of its timeout branch: the streams
\* and the exit code are read as after a normal end.
runCommand_noTimeoutReturn(timeoutMs, p) ==
    IF ~p.starts
    THEN [ok |-> FALSE, stdoutOut |-> <<>>, stderrOut |-> FailedToStart,
          child |-> destroy("none")]
    ELSE [ok |-> p.exitCode = 0, stdoutOut |-> p.out, stderrOut |-> p.err,
          child |-> destroy(IF waitForFinished(timeoutMs, p.dur) THEN "exited" ELSE kill("running"))]

\* The result: the return value, the two out-parameters (both empty on
\* entry at every call site) and the child's state when runCommand has
\* returned: "none" (never started), "exited" (ran to its end), "killed"
\* or "running".
runCommand(timeoutMs, p) ==
    IF ~p.starts
    THEN [ok |-> FALSE, stdoutOut |-> <<>>, stderrOut |-> FailedToStart,
          child |-> destroy("none")]
    ELSE IF ~waitForFinished(timeoutMs, p.dur)
    THEN [ok |-> FALSE, stdoutOut |-> <<>>, stderrOut |-> TimedOut,
          child |-> destroy(kill("running"))]
    ELSE [ok |-> p.exitCode = 0, stdoutOut |-> p.out, stderrOut |-> p.err,
          child |-> destroy("exited")]

\* The processes the environment may give for a command whose standard
\* output is drawn from outs and whose standard error from errs.
Durations == {0, 15000, 200000}

Processes(outs, errs) ==
    [starts : {TRUE}, dur : Durations, exitCode : {0, 1}, out : outs, err : errs]
    \cup [starts : {FALSE}, dur : {0}, exitCode : {0}, out : {<<>>}, err : {""}]

Run(cmd, timeoutMs, p) ==
    [cmd |-> cmd, timeoutMs |-> timeoutMs, proc |-> p, res |-> runCommand(timeoutMs, p)]

NoRun == [cmd |-> "none"]

\* The timeout each call site passes.
GhTimeoutMs == 120000
CloneTimeoutMs == 0
StatusTimeoutMs == 20000
LsFilesTimeoutMs == 20000
FetchTimeoutMs == 60000
RevParseTimeoutMs == 10000
RevListTimeoutMs == 10000
StatusUnoTimeoutMs == 10000
PullTimeoutMs == 120000
DiffTimeoutMs == 20000
PushStatusTimeoutMs == 10000
AddTimeoutMs == 20000
CommitTimeoutMs == 20000
PushTimeoutMs == 60000

CallSites ==
    { <<"gh", GhTimeoutMs>>, <<"clone", CloneTimeoutMs>>, <<"status", StatusTimeoutMs>>,
      <<"ls-files", LsFilesTimeoutMs>>, <<"fetch", FetchTimeoutMs>>,
      <<"rev-parse", RevParseTimeoutMs>>, <<"rev-list", RevListTimeoutMs>>,
      <<"status-uno", StatusUnoTimeoutMs>>, <<"pull", PullTimeoutMs>>,
      <<"diff", DiffTimeoutMs>>, <<"push-status", PushStatusTimeoutMs>>,
      <<"add", AddTimeoutMs>>, <<"commit", CommitTimeoutMs>>, <<"push", PushTimeoutMs>> }

(***************************************************************************)
(* What a slot does, in order: a subprocess (ev is the git or gh command,  *)
(* ok what runCommand returned), a dialog or a log line (text is the text  *)
(* the slot puts in it, where the slot takes it from a subprocess).        *)
(***************************************************************************)
Ev(ev, ok, text) == [ev |-> ev, ok |-> ok, text |-> text]

RunEv(r) == Ev(r.cmd, r.res.ok, <<>>)

\* The locals of the running slot, by name; a slot starts with none set.
NoLoc == [k \in {} |-> <<>>]

Set(l, k, v) == (k :> v) @@ l

\* A click starts slot s: nothing else runs, and the slot's record is new.
Begin(s, first) ==
    /\ pc = "idle"
    /\ pc' = first
    /\ slot' = s
    /\ loc' = NoLoc
    /\ events' = <<>>
    /\ lastRun' = NoRun

\* The two standard outputs no slot reads, and the standard errors.
NoOut == {<<>>}
AnyErr == {"", "fatal: failed"}

(***************************************************************************)
(* onRefreshLocal (lines 286-321), in three steps: the list is cleared     *)
(* (lines 288-296), git status fills it (lines 297-306), git ls-files adds *)
(* to it (lines 307-320).  It is a slot of its own and the last call of    *)
(* onRepoSelected, onCloneSelected, onPullSelected and onPushIfChanged.    *)
(***************************************************************************)
CleanSentinel ==
    <<"W", "o", "r", "k", "i", "n", "g", " ", "t", "r", "e", "e", " ", "c", "l", "e", "a", "n">>

Separator ==
    <<"-", "-", "-", " ", "W", "o", "r", "k", "i", "n", "g", " ", "t", "r", "e", "e", " ",
      "f", "i", "l", "e", "s", " ", "(", "m", "o", "d", "i", "f", "i", "e", "d", "/",
      "o", "t", "h", "e", "r", "s", ")", " ", "-", "-", "-">>

MaxShown == 200

MoreEntry(n) == <<".", ".", ".", " ", "(", ToString(n), " ", "m", "o", "r", "e", ")", " ", ".", ".", ".">>

Min(a, b) == IF a < b THEN a ELSE b

\* Lines 301-306 with every status line shown and the sentinel added too.
statusEntries_alwaysSentinel(out) == split(out, "\n") \o <<CleanSentinel>>

\* Lines 301-306: the entries the status output gives.
statusEntries(out) ==
    LET lines == split(out, "\n")
    IN  IF lines = <<>> THEN <<CleanSentinel>> ELSE lines

\* Lines 314-318: the entries the ls-files output gives.
lsEntries(lsOut) ==
    LET files == split(lsOut, "\n")
        show == Min(MaxShown, Len(files))
    IN  <<Separator>> \o SubSeq(files, 1, show)
        \o (IF Len(files) > show THEN <<MoreEntry(Len(files) - show)>> ELSE <<>>)

OnRefreshLocal ==
    /\ Begin("onRefreshLocal", "refresh")
    /\ UNCHANGED <<repoList, repoCur, repoSel, dirs, fileList, fileCur>>

\* Lines 288-296: the list is cleared, and nothing more is done without a
\* current repository that is cloned.
RefreshClear ==
    /\ pc = "refresh"
    /\ fileList' = <<>>
    /\ fileCur' = 0
    /\ IF repoCur = 0
       THEN /\ pc' = "idle"
            /\ UNCHANGED events
       ELSE IF repoList[repoCur].text \notin dirs
       THEN /\ events' = Append(events, Ev("log: Local repo not found", TRUE, <<>>))
            /\ pc' = "idle"
       ELSE /\ pc' = "refresh_status"
            /\ UNCHANGED events
    /\ UNCHANGED <<repoList, repoCur, repoSel, dirs, slot, loc, lastRun>>

\* Lines 297-306; outs is what git status may print.
RefreshStatus(outs) ==
    /\ pc = "refresh_status"
    /\ \E p \in Processes(outs, AnyErr) :
          LET r == Run("status", StatusTimeoutMs, p)
              out == r.res.stdoutOut
          IN  /\ lastRun' = r
              /\ events' = events \o <<RunEv(r)>>
                     \o (IF r.res.ok THEN <<>>
                         ELSE <<Ev("log: git status failed", TRUE, <<>>)>>)
              /\ fileList' = fileList \o statusEntries(out)
              /\ loc' = Set(Set(loc, "refresh.out", out),
                            "refresh.statusRows", Len(statusEntries(out)))
    /\ pc' = "refresh_ls"
    /\ UNCHANGED <<repoList, repoCur, repoSel, dirs, fileCur, slot>>

\* Lines 307-320; outs is what git ls-files may print.
RefreshLs(outs) ==
    /\ pc = "refresh_ls"
    /\ \E p \in Processes(outs, AnyErr) :
          LET r == Run("ls-files", LsFilesTimeoutMs, p)
          IN  /\ lastRun' = r
              /\ events' = events \o <<RunEv(r)>>
                     \o (IF r.res.ok THEN <<>>
                         ELSE <<Ev("log: git ls-files failed", TRUE, <<>>)>>)
                     \o <<Ev("log: Refreshed local working tree view.", TRUE, <<>>)>>
              /\ fileList' = IF r.res.ok THEN fileList \o lsEntries(r.res.stdoutOut)
                             ELSE fileList
    /\ pc' = "idle"
    /\ UNCHANGED <<repoList, repoCur, repoSel, dirs, fileCur, slot, loc>>

\* The user clicks an entry of the file list.
SelectFile ==
    /\ pc = "idle"
    /\ \E i \in 1..Len(fileList) : fileCur' = i
    /\ UNCHANGED <<repoList, repoCur, repoSel, dirs, fileList, pc, slot, loc, events, lastRun>>

\* What the external commands may print, for the slots that only pass it on.
FewLsOuts == {<<>>, <<"f", "\n">>}
FewStatusOuts == {<<>>, <<" ", "M", " ", "f", "\n">>}

(***************************************************************************)
(* Refresh local on its own: one repository, selected or not, cloned or    *)
(* not, and every status output up to MaxStatusLen characters.             *)
(***************************************************************************)
MaxStatusLen == 5

StatusChars == {" ", "M", "f", "\n"}

InitRefresh ==
    /\ repoList = <<[text |-> <<"a">>, ssh |-> <<"u">>]>>
    /\ repoCur \in {0, 1}
    /\ repoSel = IF repoCur = 0 THEN <<>> ELSE <<repoCur>>
    /\ dirs \in SUBSET {<<"a">>}
    /\ fileList = <<>> /\ fileCur = 0
    /\ pc = "idle" /\ slot = "none" /\ loc = NoLoc /\ events = <<>> /\ lastRun = NoRun

NextRefresh ==
    \/ OnRefreshLocal
    \/ RefreshClear
    \/ RefreshStatus(TextsUpTo(StatusChars, MaxStatusLen))
    \/ RefreshLs(FewLsOuts)
    \/ SelectFile

SpecRefresh == InitRefresh /\ [][NextRefresh]_vars

\* The lines of a text that hold a character: the places where one starts.
NonEmptyLines(out) ==
    Cardinality({i \in 1..Len(out) : out[i] # "\n" /\ (i = 1 \/ out[i - 1] = "\n")})

RefreshedStatus == "refresh.out" \in DOMAIN loc /\ pc \in {"refresh_ls", "idle"}

\* C6: once Refresh local has read git status for the selected, cloned
\* repository, the entries it put in the file list for that output are the
\* one entry "Working tree clean" when the output is empty and, when the
\* output has a non-empty line, one entry per non-empty line and no
\* "Working tree clean"; git ls-files only adds entries after them.
C6_StatusEntries ==
    RefreshedStatus =>
        LET out == loc["refresh.out"]
            n == loc["refresh.statusRows"]
            rows == SubSeq(fileList, 1, n)
        IN  /\ n <= Len(fileList)
            /\ pc = "refresh_ls" => n = Len(fileList)
            /\ out = <<>> => rows = <<CleanSentinel>>
            /\ NonEmptyLines(out) >= 1 =>
                  /\ \A i \in 1..n : rows[i] # CleanSentinel
                  /\ n = NonEmptyLines(out)

\* Refresh local has run to its end on an output of two change lines with
\* an empty line between them: two entries, then those of git ls-files.
C6_Witness ==
    /\ pc = "idle" /\ slot = "onRefreshLocal"
    /\ "refresh.out" \in DOMAIN loc
    /\ loc["refresh.out"] = <<"M", "\n", "\n", "f">>
    /\ Len(fileList) = 4
    /\ fileList[1] = <<"M">> /\ fileList[2] = <<"f">> /\ fileList[3] = Separator

(***************************************************************************)
(* onCheckUpdates (lines 323-370), one step per subprocess: git fetch, git *)
(* rev-parse, git rev-list and, when rev-list failed, git status -uno.     *)
(***************************************************************************)
Master == <<"m", "a", "s", "t", "e", "r">>

\* Lines 353-354 with the split at spaces done whenever the split at tabs
\* gives fewer than two parts.
countParts_spaceToo(cntOut) ==
    LET parts == split(cntOut, "\t")
    IN  IF Len(parts) < 2 THEN split(cntOut, " ") ELSE parts

\* Lines 353-354: the parts of the rev-list output.
countParts(cntOut) ==
    LET parts == split(cntOut, "\t")
    IN  IF parts = <<>> THEN split(cntOut, " ") ELSE parts

\* Lines 351-369 with the fallback taken for an unexpected output too.
afterRevList_fallbackToo(okc, cntOut) ==
    IF okc /\ Len(countParts(cntOut)) >= 2 THEN "counts" ELSE "fallback"

\* Lines 351-369: what the slot does with the rev-list result.
afterRevList(okc, cntOut) ==
    IF okc
    THEN IF Len(countParts(cntOut)) >= 2 THEN "counts" ELSE "unexpected"
    ELSE "fallback"

\* Lines 325-336.
OnCheckUpdates ==
    /\ pc = "idle"
    /\ slot' = "onCheckUpdates"
    /\ loc' = NoLoc
    /\ lastRun' = NoRun
    /\ IF repoCur = 0
       THEN /\ events' = <<Ev("information: Select repo", TRUE, <<>>)>>
            /\ pc' = "idle"
       ELSE IF repoList[repoCur].text \notin dirs
       THEN /\ events' = <<Ev("warning: Local repo missing", TRUE, <<>>)>>
            /\ pc' = "idle"
       ELSE /\ events' = <<Ev("log: Checking for remote updates", TRUE, <<>>)>>
            /\ pc' = "check_fetch"
    /\ UNCHANGED <<repoList, repoCur, repoSel, dirs, fileList, fileCur>>

\* Lines 337-341.
CheckFetch ==
    /\ pc = "check_fetch"
    /\ \E p \in Processes(NoOut, AnyErr) :
          LET r == Run("fetch", FetchTimeoutMs, p)
          IN  /\ lastRun' = r
              /\ events' = events \o <<RunEv(r)>>
                     \o (IF r.res.ok THEN <<>> ELSE <<Ev("log: git fetch failed", TRUE, <<>>)>>)
    /\ pc' = "check_branch"
    /\ UNCHANGED <<repoList, repoCur, repoSel, dirs, fileList, fileCur, slot, loc>>

\* Lines 343-346.
CheckBranch ==
    /\ pc = "check_branch"
    /\ \E p \in Processes({<<"d", "e", "v", "\n">>}, AnyErr) :
          LET r == Run("rev-parse", RevParseTimeoutMs, p)
          IN  /\ lastRun' = r
              /\ events' = Append(events, RunEv(r))
              /\ loc' = Set(loc, "check.branch",
                            IF r.res.ok THEN trimmed(r.res.stdoutOut) ELSE Master)
    /\ pc' = "check_count"
    /\ UNCHANGED <<repoList, repoCur, repoSel, dirs, fileList, fileCur, slot>>

\* Lines 348-364; outs is what git rev-list may print.
CheckCount(outs) ==
    /\ pc = "check_count"
    /\ \E p \in Processes(outs, AnyErr) :
          LET r == Run("rev-list", RevListTimeoutMs, p)
              okc == r.res.ok
              cntOut == r.res.stdoutOut
              parts == countParts(cntOut)
              todo == afterRevList(okc, cntOut)
          IN  /\ lastRun' = r
              /\ loc' = Set(Set(loc, "check.okc", okc), "check.cntOut", cntOut)
              /\ CASE todo = "counts" ->
                       LET behind == trimmed(parts[1])
                           ahead == trimmed(parts[2])
                       IN  /\ events' = events \o
                                  <<RunEv(r),
                                    Ev("log: behind, ahead", TRUE, <<behind, ahead>>),
                                    Ev("information: Remote check: behind, ahead", TRUE,
                                       <<behind, ahead>>)>>
                           /\ pc' = "idle"
                   [] todo = "unexpected" ->
                       /\ events' = events \o
                              <<RunEv(r), Ev("log: rev-list output unexpected", TRUE, cntOut)>>
                       /\ pc' = "idle"
                   [] OTHER ->
                       /\ events' = events \o
                              <<RunEv(r), Ev("log: rev-list failed, falling back", TRUE, <<>>)>>
                       /\ pc' = "check_status"
    /\ UNCHANGED <<repoList, repoCur, repoSel, dirs, fileList, fileCur, slot>>

\* Lines 365-368; outs is what git status -uno may print.
CheckStatus(outs) ==
    /\ pc = "check_status"
    /\ \E p \in Processes(outs, AnyErr) :
          LET r == Run("status-uno", StatusUnoTimeoutMs, p)
              statusOut == r.res.stdoutOut
          IN  /\ lastRun' = r
              /\ loc' = Set(loc, "check.statusOut", statusOut)
              /\ events' = events \o
                     <<RunEv(r), Ev("log: status", TRUE, statusOut),
                       Ev("information: Remote check: status", TRUE, statusOut)>>
    /\ pc' = "idle"
    /\ UNCHANGED <<repoList, repoCur, repoSel, dirs, fileList, fileCur, slot>>

StatusUnoOuts == {<<>>, <<"O", "n", " ", "b", "r", "a", "n", "c", "h", " ", "d", "e", "v", "\n">>}

(***************************************************************************)
(* Check updates on its own: one repository, selected or not, cloned or    *)
(* not, and every rev-list output up to MaxCountLen characters.            *)
(***************************************************************************)
MaxCountLen == 4

CountChars == {"3", "5", "\t", " ", "\n"}

InitCheck ==
    /\ repoList = <<[text |-> <<"a">>, ssh |-> <<"u">>]>>
    /\ repoCur \in {0, 1}
    /\ repoSel = IF repoCur = 0 THEN <<>> ELSE <<repoCur>>
    /\ dirs \in SUBSET {<<"a">>}
    /\ fileList = <<>> /\ fileCur = 0
    /\ pc = "idle" /\ slot = "none" /\ loc = NoLoc /\ events = <<>> /\ lastRun = NoRun

NextCheck ==
    \/ OnCheckUpdates
    \/ CheckFetch
    \/ CheckBranch
    \/ CheckCount(TextsUpTo(CountChars, MaxCountLen))
    \/ CheckStatus(StatusUnoOuts)

SpecCheck == InitCheck /\ [][NextCheck]_vars

Digit(c) == c \in {"3", "5"}

\* The end of a text without its final newline, if it has one.
BodyEnd(t) == IF t # <<>> /\ t[Len(t)] = "\n" THEN Len(t) - 1 ELSE Len(t)

\* t is <behind><sep><ahead>, with an optional final newline: digits up to
\* i, tabs and spaces up to j - 1, digits from j on.
CountForm(t, i, j) ==
    /\ 1 <= i /\ i + 1 < j /\ j <= BodyEnd(t)
    /\ \A k \in 1..i : Digit(t[k])
    /\ \A k \in (i + 1)..(j - 1) : t[k] \in {"\t", " "}
    /\ \A k \in j..BodyEnd(t) : Digit(t[k])

\* The <<behind, ahead>> pairs the slot has shown in its "Remote check" dialog.
CountsReported ==
    {events[k].text : k \in {n \in 1..Len(events) :
        events[n].ev = "information: Remote check: behind, ahead"}}

RanStatusUno == \E k \in 1..Len(events) : events[k].ev = "status-uno"

\* The texts the slot has put in the events named ev.
Surfaced(ev) == {events[k].text : k \in {n \in 1..Len(events) : events[n].ev = ev}}

CountDone == slot = "onCheckUpdates" /\ "check.okc" \in DOMAIN loc

\* C7 (as claimed): for every successful rev-list output <behind><sep><ahead>
\* with <sep> one or more tabs and/or spaces, Check updates reports the first
\* token as behind and the second as ahead.
C7_CountsForTabsAndSpaces ==
    (CountDone /\ loc["check.okc"]) =>
        LET t == loc["check.cntOut"]
        IN  \A i, j \in 1..Len(t) :
              CountForm(t, i, j) =>
                  CountsReported = {<<SubSeq(t, 1, i), SubSeq(t, j, BodyEnd(t))>>}

\* The tokens of a text: its maximal runs of characters that are not
\* whitespace, counted by where they start.
TokenCount(t) ==
    Cardinality({i \in 1..Len(t) : ~isSpace(t[i]) /\ (i = 1 \/ isSpace(t[i - 1]))})

\* C8 (as claimed): when rev-list failed or its output has fewer than two
\* tokens, Check updates runs git status -uno, shows its output, and
\* reports no counts.
C8_FallbackForFewTokens ==
    (CountDone /\ pc = "idle"
       /\ (~loc["check.okc"] \/ TokenCount(loc["check.cntOut"]) < 2))
    => (/\ RanStatusUno
        /\ "check.statusOut" \in DOMAIN loc
        /\ Surfaced("information: Remote check: status") = {loc["check.statusOut"]}
        /\ CountsReported = {})

\* C8 (amended): when rev-list failed, Check updates runs git status -uno
\* and puts its output in the log and in the dialog; when rev-list
\* succeeded with fewer than two non-empty tab-separated fields, it logs
\* the rev-list output as unexpected and does not run git status -uno; it
\* reports no counts in either case.
C8_FallbackOnFailureOnly ==
    (CountDone /\ pc = "idle") =>
        /\ ~loc["check.okc"] =>
              /\ RanStatusUno
              /\ "check.statusOut" \in DOMAIN loc
              /\ Surfaced("log: status") = {loc["check.statusOut"]}
              /\ Surfaced("information: Remote check: status") = {loc["check.statusOut"]}
              /\ CountsReported = {}
        /\ (loc["check.okc"] /\ Len(split(loc["check.cntOut"], "\t")) < 2) =>
              /\ ~RanStatusUno
              /\ Surfaced("log: rev-list output unexpected") = {loc["check.cntOut"]}
              /\ CountsReported = {}

\* rev-list exits 0 and prints "3": logged as unexpected, nothing else run.
C8_Witness ==
    /\ CountDone /\ pc = "idle"
    /\ loc["check.okc"] /\ loc["check.cntOut"] = <<"3", "\n">>
    /\ ~RanStatusUno
    /\ Surfaced("log: rev-list output unexpected") = {<<"3", "\n">>}

(***************************************************************************)
(* onShowDiff (lines 394-427).                                             *)
(***************************************************************************)
Dashes == <<"-", "-", "-">>

\* Lines 406-421: the path taken from a file-list entry; skip is the return
\* of line 412, taken for a separator entry.
extractPath(fileEntry) ==
    LET path ==
            IF contains(fileEntry, "\t") THEN section1(fileEntry, "\t")
            ELSE IF Len(fileEntry) > 3 /\ (isSpace(fileEntry[1]) \/ isSpace(fileEntry[2]))
            THEN trimmed(mid(fileEntry, 3))
            ELSE trimmed(fileEntry)
    IN  IF ~contains(fileEntry, "\t") /\ startsWith(fileEntry, Dashes)
        THEN [skip |-> TRUE, path |-> <<>>]
        ELSE [skip |-> FALSE, path |-> IF path = <<>> THEN trimmed(fileEntry) ELSE path]

OnShowDiff ==
    /\ pc = "idle"
    /\ slot' = "onShowDiff"
    /\ pc' = "idle"
    /\ IF repoCur = 0 \/ fileCur = 0
       THEN /\ events' = <<Ev("information: Select items", TRUE, <<>>)>>
            /\ loc' = NoLoc
            /\ lastRun' = NoRun
       ELSE LET fileEntry == fileList[fileCur]
                x == extractPath(fileEntry)
            IN  IF x.skip
                THEN /\ events' = <<Ev("log: Cannot show diff for separator entry.", TRUE, <<>>)>>
                     /\ loc' = Set(NoLoc, "diff.fileEntry", fileEntry)
                     /\ lastRun' = NoRun
                ELSE \E p \in Processes(NoOut, AnyErr) :
                       LET r == Run("diff", DiffTimeoutMs, p)
                       IN  /\ lastRun' = r
                           /\ loc' = Set(Set(NoLoc, "diff.fileEntry", fileEntry),
                                         "diff.path", x.path)
                           /\ events' = <<Ev("log: Showing diff for", TRUE, x.path), RunEv(r)>>
                                  \o (IF r.res.ok THEN <<>>
                                      ELSE <<Ev("log: git diff failed", TRUE, <<>>)>>)
                                  \o <<Ev("diffView", TRUE, r.res.stdoutOut)>>
    /\ UNCHANGED <<repoList, repoCur, repoSel, dirs, fileList, fileCur>>

(***************************************************************************)
(* Show diff on its own: one cloned repository, selected or not, and a     *)
(* file list of one entry, any line of up to MaxEntryLen characters (the   *)
(* entries Refresh local makes are the non-empty lines of git's output,    *)
(* the sentinel and the separator).                                        *)
(***************************************************************************)
MaxEntryLen == 4

EntryChars == {" ", "M", "?", "f", "\t", "-"}

DiffEntries == (TextsUpTo(EntryChars, MaxEntryLen) \ {<<>>}) \cup {CleanSentinel, Separator}

InitDiff ==
    /\ repoList = <<[text |-> <<"a">>, ssh |-> <<"u">>]>>
    /\ repoCur \in {0, 1}
    /\ repoSel = IF repoCur = 0 THEN <<>> ELSE <<repoCur>>
    /\ dirs = {<<"a">>}
    /\ fileList \in {<<e>> : e \in DiffEntries}
    /\ fileCur = 0
    /\ pc = "idle" /\ slot = "none" /\ loc = NoLoc /\ events = <<>> /\ lastRun = NoRun

NextDiff ==
    \/ SelectFile
    \/ OnShowDiff

SpecDiff == InitDiff /\ [][NextDiff]_vars

\* The path of the claim's rule: what follows the first tab if there is
\* one, else what starts at offset 3, trimmed; the whole entry if that is
\* empty.
ClaimedPath(e) ==
    LET p == IF contains(e, "\t") THEN section1(e, "\t") ELSE trimmed(mid(e, 3))
    IN  IF p = <<>> THEN e ELSE p

\* An entry made of a two-character status code, a space and a path that
\* neither starts nor ends with whitespace.
StatusLine(e) ==
    /\ Len(e) >= 4
    /\ e[1] \in {" ", "M", "?"} /\ e[2] \in {" ", "M", "?"}
    /\ e[3] = " "
    /\ ~isSpace(e[4]) /\ ~isSpace(e[Len(e)])
    /\ \A k \in 4..Len(e) : e[k] \notin {"\t", "-"}

\* C9 (as claimed, for the entries it names): for an entry made of a
\* two-character status code, a space and a path (" M f", "MM f", "?? f",
\* "M  f"), Show diff runs git diff on the path the claim's rule gives,
\* which is the path after the code.
C9_StatusCodePath ==
    (slot = "onShowDiff" /\ "diff.fileEntry" \in DOMAIN loc
       /\ StatusLine(loc["diff.fileEntry"])) =>
        /\ "diff.path" \in DOMAIN loc
        /\ loc["diff.path"] = ClaimedPath(loc["diff.fileEntry"])
        /\ loc["diff.path"] = mid(loc["diff.fileEntry"], 3)

(***************************************************************************)
(* onPushIfChanged (lines 429-489), one step per subprocess and one for    *)
(* the commit-message dialog; its last call is onRefreshLocal.             *)
(***************************************************************************)
NothingToCommit == "nothing to commit, working tree clean"

\* Line 470; of the standard errors of the model only NothingToCommit
\* holds the words.
containsNothingToCommit(err) == err = NothingToCommit

\* Line 445 with the test left out: the slot goes on whatever git printed.
pushStatusClean_never(statusOut) == FALSE

\* Line 445.
pushStatusClean(statusOut) == trimmed(statusOut) = <<>>

\* Lines 468-477 with "nothing to commit" taken as a success.
afterCommit_pushAnyway(okCi, errCi) ==
    IF okCi \/ containsNothingToCommit(errCi) THEN "push" ELSE "failed"

\* Lines 468-477.
afterCommit(okCi, errCi) ==
    IF okCi THEN "push"
    ELSE IF containsNothingToCommit(errCi) THEN "nothing" ELSE "failed"

\* Lines 431-442.
OnPushIfChanged ==
    /\ pc = "idle"
    /\ slot' = "onPushIfChanged"
    /\ loc' = NoLoc
    /\ lastRun' = NoRun
    /\ IF repoCur = 0
       THEN /\ events' = <<Ev("information: Select repo", TRUE, <<>>)>>
            /\ pc' = "idle"
       ELSE IF repoList[repoCur].text \notin dirs
       THEN /\ events' = <<Ev("warning: Local repo missing", TRUE, <<>>)>>
            /\ pc' = "idle"
       ELSE /\ events' = <<Ev("log: Checking for local changes", TRUE, <<>>)>>
            /\ pc' = "push_status"
    /\ UNCHANGED <<repoList, repoCur, repoSel, dirs, fileList, fileCur>>

\* Lines 443-449; outs is what git status may print.
PushStatus(outs) ==
    /\ pc = "push_status"
    /\ \E p \in Processes(outs, AnyErr) :
          LET r == Run("push-status", PushStatusTimeoutMs, p)
              statusOut == r.res.stdoutOut
          IN  /\ lastRun' = r
              /\ loc' = Set(loc, "push.statusOut", statusOut)
              /\ IF pushStatusClean(statusOut)
                 THEN /\ events' = events \o
                             <<RunEv(r), Ev("log: No changes to commit.", TRUE, <<>>),
                               Ev("information: No changes", TRUE, <<>>)>>
                      /\ pc' = "idle"
                 ELSE /\ events' = Append(events, RunEv(r))
                      /\ pc' = "push_prompt"
    /\ UNCHANGED <<repoList, repoCur, repoSel, dirs, fileList, fileCur, slot>>

\* Lines 450-453: the dialog, accepted (ok) or cancelled.
PushPrompt ==
    /\ pc = "push_prompt"
    /\ \E ok \in BOOLEAN :
          /\ events' = Append(events, Ev("prompt: Commit message", ok, <<>>))
          /\ pc' = IF ok THEN "push_add" ELSE "idle"
    /\ UNCHANGED <<repoList, repoCur, repoSel, dirs, fileList, fileCur, slot, loc, lastRun>>

\* Lines 455-463.
PushAdd ==
    /\ pc = "push_add"
    /\ \E p \in Processes(NoOut, AnyErr) :
          LET r == Run("add", AddTimeoutMs, p)
          IN  /\ lastRun' = r
              /\ IF ~r.res.ok
                 THEN /\ events' = events \o
                             <<Ev("log: Adding all changes...", TRUE, <<>>), RunEv(r),
                               Ev("log: git add failed.", TRUE, <<>>),
                               Ev("warning: Add failed", TRUE, <<>>)>>
                      /\ pc' = "idle"
                 ELSE /\ events' = events \o
                             <<Ev("log: Adding all changes...", TRUE, <<>>), RunEv(r)>>
                      /\ pc' = "push_commit"
    /\ UNCHANGED <<repoList, repoCur, repoSel, dirs, fileList, fileCur, slot, loc>>

\* Lines 464-477.
PushCommit ==
    /\ pc = "push_commit"
    /\ \E p \in Processes(NoOut, AnyErr \cup {NothingToCommit}) :
          LET r == Run("commit", CommitTimeoutMs, p)
              todo == afterCommit(r.res.ok, r.res.stderrOut)
          IN  /\ lastRun' = r
              /\ events' = events \o <<Ev("log: Committing...", TRUE, <<>>), RunEv(r)>>
                     \o (CASE todo = "nothing" ->
                                <<Ev("log: Nothing to commit after add", TRUE, <<>>),
                                  Ev("information: Nothing to commit", TRUE, <<>>)>>
                           [] todo = "failed" -> <<Ev("warning: Commit failed", TRUE, <<>>)>>
                           [] OTHER -> <<>>)
              /\ pc' = IF todo = "push" THEN "push_push" ELSE "idle"
    /\ UNCHANGED <<repoList, repoCur, repoSel, dirs, fileList, fileCur, slot, loc>>

\* Lines 478-488; the call of onRefreshLocal follows.
PushPush ==
    /\ pc = "push_push"
    /\ \E p \in Processes(NoOut, AnyErr) :
          LET r == Run("push", PushTimeoutMs, p)
          IN  /\ lastRun' = r
              /\ IF ~r.res.ok
                 THEN /\ events' = events \o
                             <<Ev("log: Pushing to remote...", TRUE, <<>>), RunEv(r),
                               Ev("log: git push failed", TRUE, <<>>),
                               Ev("warning: Push failed", TRUE, <<>>)>>
                      /\ pc' = "idle"
                 ELSE /\ events' = events \o
                             <<Ev("log: Pushing to remote...", TRUE, <<>>), RunEv(r),
                               Ev("information: Success", TRUE, <<>>)>>
                      /\ pc' = "refresh"
    /\ UNCHANGED <<repoList, repoCur, repoSel, dirs, fileList, fileCur, slot, loc>>

(***************************************************************************)
(* Commit & push on its own: one repository, selected or not, cloned or    *)
(* not, and every status output up to MaxPushStatusLen characters.         *)
(***************************************************************************)
MaxPushStatusLen == 3

InitPush ==
    /\ repoList = <<[text |-> <<"a">>, ssh |-> <<"u">>]>>
    /\ repoCur \in {0, 1}
    /\ repoSel = IF repoCur = 0 THEN <<>> ELSE <<repoCur>>
    /\ dirs \in SUBSET {<<"a">>}
    /\ fileList = <<>> /\ fileCur = 0
    /\ pc = "idle" /\ slot = "none" /\ loc = NoLoc /\ events = <<>> /\ lastRun = NoRun

NextPush ==
    \/ OnPushIfChanged
    \/ PushStatus(TextsUpTo(StatusChars, MaxPushStatusLen))
    \/ PushPrompt
    \/ PushAdd
    \/ PushCommit
    \/ PushPush
    \/ RefreshClear
    \/ RefreshStatus(FewStatusOuts)
    \/ RefreshLs(FewLsOuts)

SpecPush == InitPush /\ [][NextPush]_vars

IsGitStep(e) == e.ev \in {"add", "commit", "push"}

IsPrompt(e) == e.ev = "prompt: Commit message"

GitSteps == SelectSeq(events, IsGitStep)

Prompts == SelectSeq(events, IsPrompt)

StepOrder == <<"add", "commit", "push">>

\* C1: in a run of Commit & push, git add, git commit and git push are run
\* at most once each, in that order, and each only after every step before
\* it returned success.
C1_StepsInOrder ==
    slot = "onPushIfChanged" =>
        /\ Len(GitSteps) <= 3
        /\ \A k \in 1..Len(GitSteps) :
              /\ GitSteps[k].ev = StepOrder[k]
              /\ k < Len(GitSteps) => GitSteps[k].ok

\* git commit has failed with "nothing to commit": the run is over, and
\* git push was not run.
C1_Witness ==
    /\ slot = "onPushIfChanged" /\ pc = "idle"
    /\ Len(GitSteps) = 2
    /\ GitSteps[1].ok /\ ~GitSteps[2].ok
    /\ lastRun.cmd = "commit" /\ lastRun.res.stderrOut = NothingToCommit

PushChecked == slot = "onPushIfChanged" /\ "push.statusOut" \in DOMAIN loc

\* C4: in Commit & push on a selected, cloned repository, an empty status
\* output ends the run with "nothing to commit", with no prompt and no git
\* add, commit or push; a non-empty one lets git add, commit and push run
\* only after the commit-message prompt was accepted, and not at all when
\* it was cancelled; an output with a change line is followed by the prompt.
C4_PromptBeforeSteps ==
    PushChecked =>
        LET out == loc["push.statusOut"]
        IN  /\ out = <<>> =>
                  /\ pc = "idle"
                  /\ \E k \in 1..Len(events) : events[k].ev = "information: No changes"
                  /\ Prompts = <<>>
                  /\ GitSteps = <<>>
            /\ out # <<>> =>
                  /\ \A k \in 1..Len(events) :
                        IsGitStep(events[k]) =>
                            \E j \in 1..(k - 1) : IsPrompt(events[j]) /\ events[j].ok
                  /\ (\E j \in 1..Len(events) : IsPrompt(events[j]) /\ ~events[j].ok)
                        => GitSteps = <<>>
                  /\ Len(Prompts) <= 1
            /\ trimmed(out) # <<>> => (pc = "push_prompt" \/ Len(Prompts) = 1)

\* git status printed "M f" and the prompt was cancelled: the run is over
\* and nothing was added, committed or pushed.
C4_Witness ==
    /\ PushChecked /\ pc = "idle"
    /\ loc["push.statusOut"] = <<"M", " ", "f">>
    /\ Len(Prompts) = 1 /\ ~Prompts[1].ok
    /\ GitSteps = <<>>

\* The last subprocess was the git status of Refresh local, or the one of
\* Commit & push, and runCommand returned false for it: it did not start,
\* timed out or exited non-zero.
RefreshStatusFailed == lastRun.cmd = "status" /\ ~lastRun.res.ok
PushStatusFailed == lastRun.cmd = "push-status" /\ ~lastRun.res.ok

\* C11 (as claimed): the working tree is reported as clean only after a git
\* status that succeeded: when the git status of Refresh local failed, the
\* file list has no "Working tree clean" entry, and when the git status of
\* Commit & push failed, the run does not report "nothing to commit".
C11_CleanOnlyAfterSuccess ==
    /\ RefreshStatusFailed =>
          \A k \in 1..Len(fileList) : fileList[k] # CleanSentinel
    /\ PushStatusFailed =>
          \A k \in 1..Len(events) :
              events[k].ev \notin {"information: No changes", "log: No changes to commit."}

(***************************************************************************)
(* onCloneSelected (lines 246-278): one step per selected item (one turn   *)
(* of the loop of lines 253-275); its last call is onRefreshLocal.         *)
(***************************************************************************)
\* Lines 256-264 without the test of the target directory.
cloneDecision_ignoreTarget(ssh, exists) == IF ssh = <<>> THEN "skipUrl" ELSE "clone"

\* Lines 256-264: what the loop does with an item.
cloneDecision(ssh, exists) ==
    IF ssh = <<>> THEN "skipUrl"
    ELSE IF exists THEN "skipExists"
    ELSE "clone"

\* Lines 269-275 with the loop left at the first clone that fails.
afterItem_stopOnFailure(i, n, ok) == IF i = n \/ ~ok THEN "refresh" ELSE "clone_item"

\* Lines 253, 269-277: the loop goes on to the next item whatever the clone
\* returned, and onRefreshLocal follows the last one.
afterItem(i, n, ok) == IF i = n THEN "refresh" ELSE "clone_item"

\* The directories git clone may leave: the target after a success; the
\* target or nothing after a failure of a process that started (a clone
\* that is killed leaves what it wrote); nothing if it never started.
Leaves(name, p, ok) ==
    IF ok THEN {{name}}
    ELSE IF p.starts THEN {{}, {name}}
    ELSE {{}}

\* Lines 248-252.
OnCloneSelected ==
    /\ pc = "idle"
    /\ slot' = "onCloneSelected"
    /\ lastRun' = NoRun
    /\ IF repoSel = <<>>
       THEN /\ events' = <<Ev("information: Select a repo", TRUE, <<>>)>>
            /\ loc' = NoLoc
            /\ pc' = "idle"
       ELSE /\ events' = <<>>
            /\ loc' = Set(Set(Set(NoLoc, "clone.i", 1), "clone.dirs0", dirs),
                          "clone.visits", <<>>)
            /\ pc' = "clone_item"
    /\ UNCHANGED <<repoList, repoCur, repoSel, dirs, fileList, fileCur>>

\* Lines 253-275, for the item the loop has reached.
CloneItem ==
    /\ pc = "clone_item"
    /\ LET i == loc["clone.i"]
           it == repoList[repoSel[i]]
           name == it.text
           ssh == it.ssh
           todo == cloneDecision(ssh, name \in dirs)
           Visit(ok, made) ==
               [item |-> repoSel[i], act |-> todo, ok |-> ok, made |-> made]
           Next(ok, made) ==
               /\ loc' = Set(Set(loc, "clone.i", i + 1),
                             "clone.visits", Append(loc["clone.visits"], Visit(ok, made)))
               /\ dirs' = dirs \cup made
               /\ pc' = afterItem(i, Len(repoSel), ok)
       IN  CASE todo = "skipUrl" ->
                  /\ events' = Append(events, Ev("log: No ssh url, skipping", TRUE, name))
                  /\ lastRun' = lastRun
                  /\ Next(TRUE, {})
             [] todo = "skipExists" ->
                  /\ events' = Append(events, Ev("log: Target already exists, skipping clone",
                                                 TRUE, name))
                  /\ lastRun' = lastRun
                  /\ Next(TRUE, {})
             [] OTHER ->
                  \E p \in Processes(NoOut, AnyErr) :
                    LET r == Run("clone", CloneTimeoutMs, p)
                    IN  \E made \in Leaves(name, p, r.res.ok) :
                          /\ lastRun' = r
                          /\ events' = events \o
                                 <<Ev("log: Cloning", TRUE, name), RunEv(r),
                                   Ev("log: out", TRUE, r.res.stdoutOut)>>
                                 \o (IF r.res.ok
                                     THEN <<Ev("log: Clone succeeded.", TRUE, <<>>)>>
                                     ELSE <<Ev("log: Clone failed", TRUE, <<>>),
                                            Ev("warning: Clone failed", TRUE, <<>>)>>)
                          /\ Next(r.res.ok, made)
    /\ UNCHANGED <<repoList, repoCur, repoSel, fileList, fileCur, slot>>

(***************************************************************************)
(* Clone selected on its own: a list of up to MaxRepos repositories named  *)
(* a or b, with or without a clone URL, any of them selected in any order, *)
(* any of the two directories present.  The loop is modelled for any       *)
(* selection: repoList keeps QListWidget's default selection mode, which   *)
(* lets the user select one item at a time.                                *)
(***************************************************************************)
MaxRepos == 2

RepoNames == {<<"a">>, <<"b">>}

RepoItems == [text : RepoNames, ssh : {<<>>, <<"u">>}]

RepoLists == UNION {[1..n -> RepoItems] : n \in 0..MaxRepos}

\* The sequences of distinct elements of S.
Orders(S) ==
    UNION {{q \in [1..n -> S] : \A i, j \in 1..n : i # j => q[i] # q[j]} :
           n \in 0..Cardinality(S)}

InitClone ==
    /\ repoList \in RepoLists
    /\ repoSel \in Orders(1..Len(repoList))
    /\ repoCur = IF repoSel = <<>> THEN 0 ELSE repoSel[Len(repoSel)]
    /\ dirs \in SUBSET RepoNames
    /\ fileList = <<>> /\ fileCur = 0
    /\ pc = "idle" /\ slot = "none" /\ loc = NoLoc /\ events = <<>> /\ lastRun = NoRun

NextClone ==
    \/ OnCloneSelected
    \/ CloneItem
    \/ RefreshClear
    \/ RefreshStatus(NoOut)
    \/ RefreshLs(NoOut)

SpecClone == InitClone /\ [][NextClone]_vars

\* C2 (as claimed): a clone process that has started and is still running
\* when runCommand waits for it is waited for to its end: never killed,
\* never reported as "Process timed out".
C2_CloneNotTimedOut ==
    (lastRun.cmd = "clone" /\ lastRun.proc.starts /\ lastRun.proc.dur > 0) =>
        /\ lastRun.res.child = "exited"
        /\ lastRun.res.stderrOut # TimedOut
        /\ lastRun.res.ok = (lastRun.proc.exitCode = 0)

CloneStarted == slot = "onCloneSelected" /\ "clone.visits" \in DOMAIN loc

\* The indices of the events named ev.
EventsNamed(ev) == {k \in 1..Len(events) : events[k].ev = ev}

\* C3: Clone selected takes the selected items one by one, in order, and
\* clones exactly those that have a clone URL and whose directory does not
\* exist when their turn comes (it was there at the start, or an earlier
\* clone of the batch left it); the others are logged as skipped and not
\* cloned; and every selected item gets its turn, whatever the clones
\* before it returned.
C3_ClonesExactlyEligible ==
    CloneStarted =>
        LET v == loc["clone.visits"]
            Exists(k) ==
                repoList[repoSel[k]].text \in
                    (loc["clone.dirs0"] \cup UNION {v[j].made : j \in 1..(k - 1)})
            Cloned == {k \in 1..Len(v) : v[k].act = "clone"}
        IN  /\ Len(v) <= Len(repoSel)
            /\ pc # "clone_item" => Len(v) = Len(repoSel)
            /\ \A k \in 1..Len(v) :
                  /\ v[k].item = repoSel[k]
                  /\ (k \in Cloned) <=> (repoList[repoSel[k]].ssh # <<>> /\ ~Exists(k))
            /\ Cardinality(EventsNamed("clone")) = Cardinality(Cloned)
            /\ Cardinality(EventsNamed("log: No ssh url, skipping")
                           \cup EventsNamed("log: Target already exists, skipping clone"))
                  = Len(v) - Cardinality(Cloned)

\* Two items are selected; the clone of the first failed, the second was
\* cloned all the same, and the loop is over.
C3_Witness ==
    /\ CloneStarted /\ pc # "clone_item"
    /\ Len(loc["clone.visits"]) = 2
    /\ loc["clone.visits"][1].act = "clone" /\ ~loc["clone.visits"][1].ok
    /\ loc["clone.visits"][2].act = "clone"

(***************************************************************************)
(* QJsonDocument::fromJson, as onSearchRepos uses it (line 209).  The      *)
(* output of gh is a text of lexemes: the six punctuation marks of JSON,   *)
(* string literals, the number 1, the bare words a and b (no JSON), spaces *)
(* and newlines.                                                           *)
(***************************************************************************)
QName == "\"name\""
QSshUrl == "\"sshUrl\""
QA == "\"a\""
QB == "\"b\""
QU == "\"u\""

StringLexemes == {QName, QSshUrl, QA, QB, QU}

\* The text a string literal denotes.
StringText(t) ==
    CASE t = QName -> <<"n", "a", "m", "e">>
      [] t = QSshUrl -> <<"s", "s", "h", "U", "r", "l">>
      [] t = QA -> <<"a">>
      [] t = QB -> <<"b">>
      [] OTHER -> <<"u">>

\* A parse: whether it succeeded, the value read, the lexemes left.  A
\* value is a string (s), a number, an array (items: its elements) or an
\* object (items: its members, each [key, val]).
JFail == [ok |-> FALSE, val |-> <<>>, rest |-> <<>>]
JOk(v, rest) == [ok |-> TRUE, val |-> v, rest |-> rest]
JString(t) == [t |-> "string", s |-> StringText(t), items |-> <<>>]
JNumber == [t |-> "number", s |-> <<>>, items |-> <<>>]
JArray(items) == [t |-> "array", s |-> <<>>, items |-> items]
JObject(members) == [t |-> "object", s |-> <<>>, items |-> members]

RECURSIVE parseValue(_), parseElements(_, _), parseMembers(_, _)

\* value: array | object | string | number, after optional whitespace.
parseValue(ts) ==
    LET s == TrimLeft(ts)
        r == TrimLeft(Tail(s))
    IN  IF s = <<>> THEN JFail
        ELSE IF Head(s) = "["
        THEN IF r # <<>> /\ Head(r) = "]" THEN JOk(JArray(<<>>), Tail(r))
             ELSE parseElements(r, <<>>)
        ELSE IF Head(s) = "{"
        THEN IF r # <<>> /\ Head(r) = "}" THEN JOk(JObject(<<>>), Tail(r))
             ELSE parseMembers(r, <<>>)
        ELSE IF Head(s) \in StringLexemes THEN JOk(JString(Head(s)), Tail(s))
        ELSE IF Head(s) = "1" THEN JOk(JNumber, Tail(s))
        ELSE JFail

\* elements: value ("," value)* "]"; acc holds the elements read.
parseElements(ts, acc) ==
    LET v == parseValue(ts)
        r == TrimLeft(v.rest)
    IN  IF ~v.ok \/ r = <<>> THEN JFail
        ELSE IF Head(r) = "," THEN parseElements(Tail(r), Append(acc, v.val))
        ELSE IF Head(r) = "]" THEN JOk(JArray(Append(acc, v.val)), Tail(r))
        ELSE JFail

\* members: string ":" value ("," string ":" value)* "}"; acc holds the
\* members read.
parseMembers(ts, acc) ==
    LET s == TrimLeft(ts)
        c == TrimLeft(Tail(s))
        v == parseValue(Tail(c))
        r == TrimLeft(v.rest)
        m == [key |-> StringText(Head(s)), val |-> v.val]
    IN  IF s = <<>> \/ Head(s) \notin StringLexemes THEN JFail
        ELSE IF c = <<>> \/ Head(c) # ":" THEN JFail
        ELSE IF ~v.ok \/ r = <<>> THEN JFail
        ELSE IF Head(r) = "," THEN parseMembers(Tail(r), Append(acc, m))
        ELSE IF Head(r) = "}" THEN JOk(JObject(Append(acc, m)), Tail(r))
        ELSE JFail

\* QJsonDocument::fromJson of Qt 5: a document is an array or an object,
\* with nothing but whitespace around it; anything else is a parse error.
fromJson(ts) ==
    LET s == TrimLeft(ts)
        v == parseValue(s)
    IN  IF s = <<>> \/ Head(s) \notin {"[", "{"} THEN JFail
        ELSE IF ~v.ok \/ TrimLeft(v.rest) # <<>> THEN JFail
        ELSE v

\* o[key].toString(): the member's string, or the empty text when there is
\* no such member or it is no string.
memberString(o, key) ==
    LET hits == {k \in 1..Len(o.items) : o.items[k].key = key}
    IN  IF hits = {} THEN <<>>
        ELSE LET val == o.items[CHOOSE k \in hits : TRUE].val
             IN  IF val.t = "string" THEN val.s ELSE <<>>

KeyName == <<"n", "a", "m", "e">>
KeySshUrl == <<"s", "s", "h", "U", "r", "l">>

(***************************************************************************)
(* onSearchRepos (lines 190-235).                                          *)
(***************************************************************************)
\* Lines 225-233 without the test of line 226: an item for every element.
RECURSIVE arrayItems_everyElement(_)
arrayItems_everyElement(vals) ==
    IF vals = <<>> THEN <<>>
    ELSE <<[text |-> memberString(Head(vals), KeyName),
            ssh |-> memberString(Head(vals), KeySshUrl)]>>
         \o arrayItems_everyElement(Tail(vals))

\* Lines 225-233: the items the elements of the array give.
RECURSIVE arrayItems(_)
arrayItems(vals) ==
    IF vals = <<>> THEN <<>>
    ELSE (IF Head(vals).t # "object" THEN <<>>
          ELSE <<[text |-> memberString(Head(vals), KeyName),
                  ssh |-> memberString(Head(vals), KeySshUrl)]>>)
         \o arrayItems(Tail(vals))

\* Lines 214-216: the items the lines of the output give.
lineItems(out) ==
    LET lines == split(out, "\n")
    IN  [k \in 1..Len(lines) |-> [text |-> trimmed(lines[k]), ssh |-> <<>>]]

\* Lines 208-234: what the output of gh gives.
searchResult(out) ==
    LET doc == fromJson(out)
    IN  IF ~doc.ok THEN [how |-> "lines", items |-> lineItems(out)]
        ELSE IF doc.val.t # "array" THEN [how |-> "notArray", items |-> <<>>]
        ELSE [how |-> "array", items |-> arrayItems(doc.val.items)]

\* Lines 191-196: users is what the user may have typed.
OnSearchRepos(users) ==
    /\ pc = "idle"
    /\ slot' = "onSearchRepos"
    /\ lastRun' = NoRun
    /\ \E text \in users :
          LET user == trimmed(text)
          IN  IF user = <<>>
              THEN /\ events' = <<Ev("warning: Input required", TRUE, <<>>)>>
                   /\ loc' = NoLoc
                   /\ pc' = "idle"
              ELSE /\ events' = <<Ev("log: Searching repos", TRUE, user)>>
                   /\ loc' = Set(NoLoc, "search.user", user)
                   /\ pc' = "search_gh"
    /\ UNCHANGED <<repoList, repoCur, repoSel, dirs, fileList, fileCur>>

\* Lines 198-235: outs is what gh may print.  repoList->clear() unsets the
\* current item, and currentTextChanged then runs onRefreshLocal, which
\* clears the file list and returns.
SearchGh(outs) ==
    /\ pc = "search_gh"
    /\ pc' = "idle"
    /\ UNCHANGED <<slot, dirs>>
    /\ \E p \in Processes(outs, AnyErr) :
          LET r == Run("gh", GhTimeoutMs, p)
              out == r.res.stdoutOut
              res == searchResult(out)
          IN  /\ lastRun' = r
              /\ loc' = Set(Set(loc, "search.ok", r.res.ok), "search.out", out)
              /\ IF ~r.res.ok
                 THEN /\ events' = events \o <<RunEv(r), Ev("log: gh failed", TRUE, <<>>),
                                               Ev("warning: gh failed", TRUE, <<>>)>>
                      /\ UNCHANGED <<repoList, repoCur, repoSel, fileList, fileCur>>
                 ELSE /\ events' = events \o <<RunEv(r)>>
                             \o (CASE res.how = "lines" ->
                                        <<Ev("log: Failed to parse gh JSON", TRUE, <<>>)>>
                                   [] res.how = "notArray" ->
                                        <<Ev("log: Unexpected gh json (not array)", TRUE, <<>>)>>
                                   [] OTHER ->
                                        <<Ev("log: Found repositories.", TRUE, <<>>)>>)
                      /\ repoList' = res.items
                      /\ repoCur' = 0
                      /\ repoSel' = <<>>
                      /\ fileList' = IF repoCur # 0 THEN <<>> ELSE fileList
                      /\ fileCur' = IF repoCur # 0 THEN 0 ELSE fileCur

\* The user clicks an item of the repository list: it is the current and
\* the selected one, and onRepoSelected calls onRefreshLocal.
SelectRepo ==
    /\ Begin("onRepoSelected", "refresh")
    /\ \E i \in 1..Len(repoList) :
          /\ i # repoCur
          /\ repoCur' = i
          /\ repoSel' = <<i>>
    /\ UNCHANGED <<repoList, dirs, fileList, fileCur>>

(***************************************************************************)
(* Search on its own.  gh prints, with a final newline, an array of up to  *)
(* MaxElems elements, each an object with or without name and sshUrl, a    *)
(* number or a string; or one such element alone; or an array cut short;   *)
(* or it prints up to MaxPlainLen characters that are no JSON.             *)
(***************************************************************************)
MaxElems == 2
MaxPlainLen == 2

ElementTexts ==
    { <<"{", QName, ":", QA, ",", QSshUrl, ":", QU, "}">>,
      <<"{", QName, ":", QB, "}">>,
      <<"{", QSshUrl, ":", "1", "}">>,
      <<"1">>,
      <<QA>> }

RECURSIVE Joined(_)
Joined(es) ==
    IF es = <<>> THEN <<>>
    ELSE IF Len(es) = 1 THEN es[1]
    ELSE es[1] \o <<",">> \o Joined(Tail(es))

ArrayText(es) == <<"[">> \o Joined(es) \o <<"]">>

ArrayTexts == {ArrayText(es) : es \in UNION {[1..n -> ElementTexts] : n \in 0..MaxElems}}

CutTexts == {SubSeq(t, 1, Len(t) - 1) : t \in {ArrayText(<<e>>) : e \in ElementTexts}}

GhOutputs ==
    {t \o <<"\n">> : t \in ArrayTexts \cup ElementTexts \cup CutTexts}
        \cup TextsUpTo({"a", " ", "\n"}, MaxPlainLen)

InitSearch ==
    /\ repoList \in {<<>>, <<[text |-> <<"a">>, ssh |-> <<"u">>]>>}
    /\ repoCur = 0
    /\ repoSel = <<>>
    /\ dirs = {}
    /\ fileList = <<>> /\ fileCur = 0
    /\ pc = "idle" /\ slot = "none" /\ loc = NoLoc /\ events = <<>> /\ lastRun = NoRun

NextSearch ==
    \/ OnSearchRepos({<<" ">>, <<"o">>})
    \/ SearchGh(GhOutputs)
    \/ SelectRepo
    \/ RefreshClear

SpecSearch == InitSearch /\ [][NextSearch]_vars

\* gh ran and succeeded, and onSearchRepos has returned.
SearchDone ==
    /\ pc = "idle" /\ slot = "onSearchRepos"
    /\ "search.ok" \in DOMAIN loc /\ loc["search.ok"]

\* The JSON value the whole text denotes, if it is JSON at all: any value
\* (array, object, string, number) with only whitespace around it.
JsonOf(out) == parseValue(out)
IsJson(out) == JsonOf(out).ok /\ TrimLeft(JsonOf(out).rest) = <<>>

IsObjectValue(v) == v.t = "object"

\* The name and the clone URL an element carries.
ElementEntry(v) == [text |-> memberString(v, KeyName), ssh |-> memberString(v, KeySshUrl)]

\* The non-empty lines of a text, by where they start.
LineStarts(out) == {i \in 1..Len(out) : out[i] # "\n" /\ (i = 1 \/ out[i - 1] = "\n")}
LineEnd(out, i) == CHOOSE j \in i..Len(out) :
                      /\ \A k \in i..j : out[k] # "\n"
                      /\ (j = Len(out) \/ out[j + 1] = "\n")
NthLine(out, n) ==
    LET i == CHOOSE x \in LineStarts(out) : Cardinality({y \in LineStarts(out) : y <= x}) = n
    IN  SubSeq(out, i, LineEnd(out, i))

\* The list is one entry per non-empty line of the output, in order, each
\* the line without the whitespace around it and with no clone URL.
ListIsLines(out) ==
    /\ Len(repoList) = Cardinality(LineStarts(out))
    /\ \A n \in 1..Len(repoList) :
          repoList[n] = [text |-> trimmed(NthLine(out, n)), ssh |-> <<>>]

\* C10 (as claimed): after a successful gh, a JSON array gives one entry
\* per element, in order, with the element's name and sshUrl; any other
\* valid JSON gives an empty list and a logged error; output that is no
\* valid JSON gives one entry per non-empty line, with no clone URL.
C10_ListFromJson ==
    SearchDone =>
        LET out == loc["search.out"]
            v == JsonOf(out).val
        IN  IF IsJson(out) /\ v.t = "array"
            THEN /\ Len(repoList) = Len(v.items)
                 /\ \A k \in 1..Len(v.items) : repoList[k] = ElementEntry(v.items[k])
            ELSE IF IsJson(out)
            THEN /\ repoList = <<>>
                 /\ EventsNamed("log: Unexpected gh json (not array)") # {}
            ELSE ListIsLines(out)

\* C10: after a successful gh, a JSON array gives one entry per element
\* that is an object, in order, with the element's name and sshUrl (empty
\* where the member is missing or no string), and no entry for the other
\* elements; a JSON object gives an empty list and a logged error; any
\* other output, a bare JSON string or number included, gives one entry
\* per non-empty line, trimmed, with no clone URL.
C10_ListFromDocument ==
    SearchDone =>
        LET out == loc["search.out"]
            v == JsonOf(out).val
            objs == SelectSeq(v.items, IsObjectValue)
        IN  IF IsJson(out) /\ v.t = "array"
            THEN /\ Len(repoList) = Len(objs)
                 /\ \A k \in 1..Len(objs) : repoList[k] = ElementEntry(objs[k])
            ELSE IF IsJson(out) /\ v.t = "object"
            THEN /\ repoList = <<>>
                 /\ EventsNamed("log: Unexpected gh json (not array)") # {}
            ELSE ListIsLines(out)

\* gh printed an array of an object and something that is no object, and
\* the list has the one entry of the object.
C10_Witness ==
    /\ SearchDone
    /\ IsJson(loc["search.out"])
    /\ JsonOf(loc["search.out"]).val.t = "array"
    /\ Len(JsonOf(loc["search.out"]).val.items) = 2
    /\ Len(repoList) = 1
    /\ repoList[1].ssh = <<"u">>

(***************************************************************************)
(* The process runner on its own: any call site, any process.              *)
(***************************************************************************)
InitRun ==
    /\ repoList = <<>> /\ repoCur = 0 /\ repoSel = <<>> /\ dirs = {}
    /\ fileList = <<>> /\ fileCur = 0
    /\ pc = "idle" /\ slot = "none" /\ loc = NoLoc /\ events = <<>> /\ lastRun = NoRun

RunAny ==
    /\ \E site \in CallSites, p \in Processes({<<>>, <<"x">>}, AnyErr) :
          lastRun' = Run(site[1], site[2], p)
    /\ UNCHANGED <<repoList, repoCur, repoSel, dirs, fileList, fileCur, pc, slot, loc, events>>

NextRun == RunAny

SpecRun == InitRun /\ [][NextRun]_vars

\* C5: a runCommand call whose process started and did not finish within a
\* non-zero timeout returns false with "Process timed out" as the error
\* text, and the child is not running when the call has returned.
C5_TimeoutReported ==
    (/\ lastRun.cmd # "none"
     /\ lastRun.proc.starts
     /\ lastRun.timeoutMs # 0
     /\ lastRun.proc.dur > lastRun.timeoutMs)
    => (/\ lastRun.res.ok = FALSE
        /\ lastRun.res.stderrOut = TimedOut
        /\ lastRun.res.child # "running")

\* A status call (20 s) on a process that runs 200 s, and exits 0 with
\* output: killed, reported as timed out.
C5_Witness ==
    /\ lastRun.cmd = "status"
    /\ lastRun.proc.starts /\ lastRun.proc.dur = 200000 /\ lastRun.proc.exitCode = 0
    /\ lastRun.proc.out = <<"x">>
    /\ lastRun.res.ok = FALSE /\ lastRun.res.stderrOut = TimedOut
    /\ lastRun.res.child = "killed"

====
